---- MODULE Spec2Model ----
(***************************************************************************)
(* Model of NonSmallInt (src/lib.rs): a little-endian, arbitrarily-sized   *)
(* unsigned integer stored as a Vec<u8> of decimal digits.                 *)
(*                                                                         *)
(* A NonSmallInt is modelled by its `digits` vector: a TLA+ sequence whose *)
(* element i+1 is the code's digits[i] (least-significant digit first).    *)
(* Option<T> is modelled by a record [some, v].                            *)
(***************************************************************************)
EXTENDS Integers, Sequences, FiniteSets, TLC

\* const RADIX: u64 = 10
RADIX == 10

\* Width of a stored digit (u8).
U8 == 256

None == [some |-> FALSE, v |-> <<>>]
Some(x) == [some |-> TRUE, v |-> x]

max(x, y) == IF x >= y THEN x ELSE y
min(x, y) == IF x <= y THEN x ELSE y

\* Vec::reverse / Iterator::rev over a whole vector.
RECURSIVE reverse(_)
reverse(s) == IF s = <<>> THEN <<>> ELSE Append(reverse(Tail(s)), Head(s))

\* The mathematical value a digit vector denotes (not part of the code; the
\* yardstick the properties are stated against).
RECURSIVE Val(_)
Val(ds) == IF ds = <<>> THEN 0 ELSE Head(ds) + RADIX * Val(Tail(ds))

\* ---------------------------------------------------------------- text
\* Characters are one-character strings.
DigitChars == <<"0", "1", "2", "3", "4", "5", "6", "7", "8", "9">>

\* char::is_digit(10)
is_digit(c) == \E i \in 1..RADIX : DigitChars[i] = c

\* char::to_digit(10) of a character is_digit accepts
to_digit(c) == (CHOOSE i \in 1..RADIX : DigitChars[i] = c) - 1

\* char::is_whitespace, on the characters of the model
is_whitespace(c) == c = " "

\* str::trim: drop leading and trailing whitespace
RECURSIVE trim_start(_)
trim_start(s) ==
    IF s # <<>> /\ is_whitespace(Head(s)) THEN trim_start(Tail(s)) ELSE s

trim(s) == reverse(trim_start(reverse(trim_start(s))))

\* format!("{}", n) of a native unsigned integer: its canonical decimal numeral
RECURSIVE format_uint(_)
format_uint(n) ==
    IF n < RADIX THEN <<DigitChars[n + 1]>>
    ELSE Append(format_uint(n \div RADIX), DigitChars[(n % RADIX) + 1])

\* A parse loop that skips a character that is no digit without failing the parse
RECURSIVE parse_loop_skipping(_, _, _)
parse_loop_skipping(cs, digits, is_number) ==
    IF cs = <<>> THEN <<digits, is_number>>
    ELSE IF is_digit(Head(cs))
         THEN parse_loop_skipping(Tail(cs), Append(digits, to_digit(Head(cs))), is_number)
         ELSE parse_loop_skipping(Tail(cs), digits, is_number)

\* NonSmallInt::parse: the loop over n.trim().chars(); returns <<digits, is_number>>
RECURSIVE parse_loop(_, _, _)
parse_loop(cs, digits, is_number) ==
    IF cs = <<>> THEN <<digits, is_number>>
    ELSE IF is_digit(Head(cs))
         THEN parse_loop(Tail(cs), Append(digits, to_digit(Head(cs))), is_number)
         ELSE parse_loop(Tail(cs), digits, FALSE)

parse(n) ==
    LET res == parse_loop(trim(n), <<>>, TRUE)
        digits == reverse(res[1])
    IN  IF res[2] THEN Some(digits) ELSE None

\* NonSmallInt::of
of(n) == parse(format_uint(n)).v

\* ---------------------------------------------------------------- basics
\* self.digits.iter().rev().skip_while(|&n| *n == 0)  (most-significant first)
RECURSIVE skip_zeros(_)
skip_zeros(s) == IF s # <<>> /\ Head(s) = 0 THEN skip_zeros(Tail(s)) ELSE s

\* NonSmallInt::length(RADIX): number of significant digits
length(ds) == Len(skip_zeros(reverse(ds)))

\* NonSmallInt::times_radix
RECURSIVE times_radix(_, _)
times_radix(ds, n) == IF n = 0 THEN ds ELSE times_radix(<<0>> \o ds, n - 1)

\* NonSmallInt::is_zero
is_zero(ds) == Len(ds) = 0 \/ \A i \in 1..Len(ds) : ds[i] = 0

\* Equality as #[derive(PartialEq)] would give it: of the stored vectors
eq_derived(a, b) == a = b

\* impl PartialEq
eq(a, b) == skip_zeros(reverse(a)) = skip_zeros(reverse(b))

\* ---------------------------------------------------------------- Digits
\* NonSmallInt::iter_digits: struct Digits { nsi, next_ix, next_back_ix, empty }
iter_digits(nsi, len) ==
    [nsi |-> nsi, next_ix |-> 0, next_back_ix |-> len - 1, empty |-> len = 0]

\* `n <= (i as usize)` for a usize n and an isize i.  A negative i wraps to
\* 2^64 + i, which exceeds every index n the model reaches (n < 2^63).
le_as_usize(n, i) == IF i < 0 THEN TRUE ELSE n <= i

\* The guard of Iterator::next
next_guard(d) == ~d.empty /\ le_as_usize(d.next_ix, d.next_back_ix)

\* Iterator::next for Digits: [item: Option<u8>, it: the iterator afterwards]
next(d) ==
    IF next_guard(d)
    THEN [item |-> Some(IF d.next_ix < Len(d.nsi) THEN d.nsi[d.next_ix + 1] ELSE 0),
          it   |-> [d EXCEPT !.next_ix = @ + 1]]
    ELSE [item |-> None, it |-> d]

\* The guard of DoubleEndedIterator::next_back
next_back_guard(d) == ~d.empty /\ d.next_back_ix >= d.next_ix

\* DoubleEndedIterator::next_back for Digits (the guard makes next_back_ix >= 0
\* where it is cast to usize)
next_back(d) ==
    IF next_back_guard(d)
    THEN [item |-> Some(IF d.next_back_ix < Len(d.nsi)
                        THEN d.nsi[d.next_back_ix + 1] ELSE 0),
          it   |-> [d EXCEPT !.next_back_ix = @ - 1]]
    ELSE [item |-> None, it |-> d]

\* Draining a Digits from the front (the `for` loops over iter_digits(..))
RECURSIVE collect(_)
collect(d) ==
    LET n == next(d)
    IN  IF n.item.some THEN <<n.item.v>> \o collect(n.it) ELSE <<>>

\* Draining iter_digits(..).rev(): every advance is a next_back
RECURSIVE collect_rev(_)
collect_rev(d) ==
    LET n == next_back(d)
    IN  IF n.item.some THEN <<n.item.v>> \o collect_rev(n.it) ELSE <<>>

\* ---------------------------------------------------------------- order
\* lhs_digits.zip(rhs_digits).skip_while(|(l, r)| l == r).next() and the match on it
RECURSIVE first_diff_lt(_, _)
first_diff_lt(ls, rs) ==
    IF ls = <<>> \/ rs = <<>> THEN FALSE
    ELSE IF Head(ls) = Head(rs) THEN first_diff_lt(Tail(ls), Tail(rs))
         ELSE Head(ls) < Head(rs)

\* lt deciding on the stored lengths instead of the significant lengths
lt_stored_len(self, rhs) ==
    IF Len(self) < Len(rhs) THEN TRUE
    ELSE LET max_length == max(Len(self), Len(rhs))
         IN  first_diff_lt(collect_rev(iter_digits(self, max_length)),
                           collect_rev(iter_digits(rhs, max_length)))

\* NonSmallInt::lt
lt(self, rhs) ==
    IF length(self) < length(rhs) THEN TRUE
    ELSE LET max_length == max(Len(self), Len(rhs))
         IN  first_diff_lt(collect_rev(iter_digits(self, max_length)),
                           collect_rev(iter_digits(rhs, max_length)))

\* impl Ord: cmp
cmp(self, other) ==
    IF lt(self, other) THEN "Less"
    ELSE IF eq(self, other) THEN "Equal"
    ELSE "Greater"

\* ---------------------------------------------------------------- add, sub
\* The loop of safe_sub over the zipped digits; returns <<out, borrow>>.
\* (RADIX + l).wrapping_sub(r + borrow) never wraps: l >= 0 and r + borrow <= RADIX.
RECURSIVE sub_loop(_, _, _, _)
sub_loop(ls, rs, out, borrow) ==
    IF ls = <<>> \/ rs = <<>> THEN <<out, borrow>>
    ELSE LET diff == (RADIX + Head(ls)) - (Head(rs) + borrow)
         IN  sub_loop(Tail(ls), Tail(rs),
                      Append(out, (diff % RADIX) % U8), 1 - diff \div RADIX)

\* safe_sub that drops the borrow left after the most-significant position
safe_sub_wrapping(self, rhs) ==
    LET max_length == max(Len(self), Len(rhs))
        res == sub_loop(collect(iter_digits(self, max_length)),
                        collect(iter_digits(rhs, max_length)), <<>>, 0)
    IN  Some(res[1])

\* NonSmallInt::safe_sub
safe_sub(self, rhs) ==
    LET max_length == max(Len(self), Len(rhs))
        res == sub_loop(collect(iter_digits(self, max_length)),
                        collect(iter_digits(rhs, max_length)), <<>>, 0)
    IN  IF res[2] = 0 THEN Some(res[1]) ELSE None

\* impl Sub: the operator `-`; "panic" models the abort
sub(self, rhs) ==
    LET r == safe_sub(self, rhs)
    IN  IF r.some THEN [panic |-> FALSE, v |-> r.v] ELSE [panic |-> TRUE, v |-> <<>>]

\* The loop of add over the zipped digits; returns <<out, carry>>
RECURSIVE add_loop(_, _, _, _)
add_loop(ls, rs, out, carry) ==
    IF ls = <<>> \/ rs = <<>> THEN <<out, carry>>
    ELSE LET temp == Head(ls) + Head(rs) + carry
         IN  add_loop(Tail(ls), Tail(rs),
                      Append(out, (temp % RADIX) % U8), temp \div RADIX)

\* impl Add
add(self, rhs) ==
    LET max_length == max(length(self), length(rhs))
        res == add_loop(collect(iter_digits(self, max_length)),
                        collect(iter_digits(rhs, max_length)), <<>>, 0)
    IN  IF res[2] # 0 THEN Append(res[1], (res[2] % RADIX) % U8) ELSE res[1]

\* ---------------------------------------------------------------- multiply
\* A flush that pushes the whole carry as one digit
flush_carry_whole(out, carry) == IF carry = 0 THEN out ELSE Append(out, carry % U8)

\* `while carry != 0 { push(carry % RADIX); carry /= RADIX }`
RECURSIVE flush_carry(_, _)
flush_carry(out, carry) ==
    IF carry = 0 THEN out
    ELSE flush_carry(Append(out, (carry % RADIX) % U8), carry \div RADIX)

\* The first loop of Mul<u32>; returns <<out_digits, carry>>
RECURSIVE mul_u32_loop(_, _, _, _)
mul_u32_loop(ds, rhs, out, carry) ==
    IF ds = <<>> THEN <<out, carry>>
    ELSE LET temp == rhs * Head(ds) + carry
         IN  mul_u32_loop(Tail(ds), rhs, Append(out, (temp % RADIX) % U8),
                          temp \div RADIX)

\* impl Mul<u32> for &NonSmallInt
mul_u32(self, rhs) ==
    LET res == mul_u32_loop(self, rhs, <<>>, 0)
    IN  flush_carry(res[1], res[2])

\* A multiply loop that adds the partial products without shifting them
RECURSIVE mul_loop_unshifted(_, _, _, _)
mul_loop_unshifted(self, rds, ix, out) ==
    IF rds = <<>> THEN out
    ELSE mul_loop_unshifted(self, Tail(rds), ix + 1, add(out, mul_u32(self, Head(rds))))

\* The loop of Mul over rhs.digits.iter().zip(0..)
RECURSIVE mul_loop(_, _, _, _)
mul_loop(self, rds, ix, out) ==
    IF rds = <<>> THEN out
    ELSE LET to_be_added == times_radix(mul_u32(self, Head(rds)), ix)
         IN  mul_loop(self, Tail(rds), ix + 1, add(out, to_be_added))

\* impl Mul for &NonSmallInt
mul(self, rhs) == mul_loop(self, rhs, 0, of(0))

\* NonSmallInt::pow
RECURSIVE pow(_, _)
pow(self, n) == IF n = 0 THEN of(1) ELSE mul(self, pow(self, n - 1))

\* impl Sum
RECURSIVE sum_loop(_, _)
sum_loop(xs, acc) == IF xs = <<>> THEN acc ELSE sum_loop(Tail(xs), add(acc, Head(xs)))

sum(xs) == sum_loop(xs, of(0))

\* ---------------------------------------------------------------- format
\* The loop of Display::fmt: write!(f, "{}", d) for d in digits.iter().rev()
RECURSIVE fmt_loop(_)
fmt_loop(rds) == IF rds = <<>> THEN <<>> ELSE format_uint(Head(rds)) \o fmt_loop(Tail(rds))

\* impl fmt::Display
fmt(self) == IF is_zero(self) THEN <<"0">> ELSE fmt_loop(reverse(self))

\* ---------------------------------------------------------------- div_u32
\* The quotient loop of div_u32 over digits.iter().rev(); returns <<quotient, carry>>
RECURSIVE div_u32_loop(_, _, _, _)
div_u32_loop(rds, rhs, quotient, carry) ==
    IF rds = <<>> THEN <<quotient, carry>>
    ELSE LET temp == carry * RADIX + Head(rds)
             out  == (temp \div rhs) % U8
         IN  div_u32_loop(Tail(rds), rhs, <<out>> \o quotient, temp % rhs)

\* NonSmallInt::div_u32: Option<(quotient, remainder)>
div_u32(self, rhs) ==
    IF rhs = 0 THEN None
    ELSE LET res == div_u32_loop(reverse(self), rhs, <<>>, 0)
         IN  Some(<<res[1], flush_carry(<<>>, res[2])>>)

\* ---------------------------------------------------------------- long_division
\* IndexingIsHard::lookup: the digit at ix, or 0 past the end
lookup(v, ix) == IF ix < Len(v) THEN v[ix + 1] ELSE 0

\* Vec::insert(ix, value); the code only reaches it with ix = len (ix > len panics,
\* which TLC reports as an out-of-range SubSeq)
vec_insert(v, ix, value) ==
    IF ix = Len(v) THEN Append(v, value)
    ELSE SubSeq(v, 1, ix) \o <<value>> \o SubSeq(v, ix + 1, Len(v))

\* An estimate from the two leading digits of the window and the leading digit of
\* the divisor only
trial_two_by_one(r, d, k, m) ==
    LET km == k + m
        r2 == (lookup(r, km) * RADIX) + lookup(r, km - 1)
        d1 == lookup(d, m - 1)
    IN  min(r2 \div d1, RADIX - 1) % U8

\* closure `trial`
trial(r, d, k, m) ==
    LET km == k + m
        r3 == ((lookup(r, km) * RADIX) + lookup(r, km - 1)) * RADIX + lookup(r, km - 2)
        d2 == lookup(d, m - 1) * RADIX + lookup(d, m - 2)
    IN  min(r3 \div d2, RADIX - 1) % U8

\* The while loop of closure `smaller`: the index i it stops at
RECURSIVE smaller_loop(_, _, _, _, _)
smaller_loop(r, dq, k, i, j) ==
    IF i = j THEN i
    ELSE IF lookup(r, i + k) # lookup(dq, i) THEN smaller_loop(r, dq, k, i, i)
         ELSE smaller_loop(r, dq, k, i - 1, j)

\* closure `smaller`
smaller(r, dq, k, m) ==
    LET i == smaller_loop(r, dq, k, m, 0)
    IN  lookup(r, i + k) < lookup(dq, i)

\* The for loop of closure `difference`, from index i on; returns <<r, borrow>>.
\* (RADIX + r[i+k]).wrapping_sub(dq[i] + borrow) never wraps: dq[i] + borrow <= RADIX.
RECURSIVE difference_loop(_, _, _, _, _, _)
difference_loop(r, dq, k, m, i, borrow) ==
    IF i > m THEN <<r, borrow>>
    ELSE LET diff == (RADIX + lookup(r, i + k)) - (lookup(dq, i) + borrow)
             out  == (diff % RADIX) % U8
             r2   == IF i + k < Len(r) THEN [r EXCEPT ![i + k + 1] = out]
                     ELSE vec_insert(r, i + k, out)
         IN  difference_loop(r2, dq, k, m, i + 1, 1 - diff \div RADIX)

\* closure `difference`: the buffer after the in-place subtraction, and the borrow
\* left when the loop ends (the code drops it)
difference(r, dq, k, m) == difference_loop(r, dq, k, m, 0, 0)

\* let f: u8 = RADIX as u8 / (y.digits[m-1] + 1)
norm_factor(y, m) == (RADIX \div (y[m] + 1)) % U8

\* closure `longdivide`, up to the loop: the locals n, m, f, r, d, q and the first k.
\* qt0, qt, corrected, win, dq and borrow record what the last iteration did.
ld_start(x, y) ==
    LET n == length(x)
        m == length(y)
        f == norm_factor(y, m)
    IN  [n |-> n, m |-> m, f |-> f, r |-> mul_u32(x, f), d |-> mul_u32(y, f),
         q |-> <<>>, k |-> n - m, iter |-> 0,
         qt0 |-> 0, qt |-> 0, corrected |-> FALSE, win |-> <<>>, dq |-> <<>>,
         borrow |-> 0]

\* One iteration of `for k in (0..(n-m+1)).rev()`.  `qt - 1` is u8 arithmetic.
ld_step(st) ==
    LET qt0 == trial(st.r, st.d, st.k, st.m)
        dq0 == mul_u32(st.d, qt0)
        corrected == smaller(st.r, dq0, st.k, st.m)
        qt  == IF corrected THEN (qt0 - 1) % U8 ELSE qt0
        dq  == IF corrected THEN mul_u32(st.d, qt) ELSE dq0
        res == difference(st.r, dq, st.k, st.m)
    IN  [st EXCEPT !.r = res[1], !.q = <<qt>> \o st.q, !.k = st.k - 1,
                   !.iter = st.iter + 1,
                   !.qt0 = qt0, !.qt = qt, !.corrected = corrected,
                   !.win = [i \in 1..(st.m + 1) |-> lookup(st.r, st.k + i - 1)],
                   !.dq = dq, !.borrow = res[2]]

\* A return that forgets to divide the scaled remainder by f
ld_finish_scaled(st) == <<st.q, st.r>>

\* closure `longdivide`, after the loop: r = r.div_u32(f).0; (q, r)
ld_finish(st) == <<st.q, div_u32(st.r, st.f).v[1]>>

RECURSIVE ld_run(_)
ld_run(st) == IF st.k < 0 THEN st ELSE ld_run(ld_step(st))

\* closure `longdivide`
longdivide(x, y) == ld_finish(ld_run(ld_start(x, y)))

\* fn long_division
long_division(lhs, rhs) == IF is_zero(rhs) THEN None ELSE Some(longdivide(lhs, rhs))

\* Which branch NonSmallInt::div_nsi takes
div_branch(self, rhs) ==
    IF is_zero(rhs) THEN "zero"
    ELSE IF length(rhs) = 1 THEN "scalar"
    ELSE IF length(self) < length(rhs) THEN "short"
    ELSE "long"

\* NonSmallInt::div_nsi
div_nsi(self, rhs) ==
    IF is_zero(rhs) THEN None
    ELSE IF length(rhs) = 1 THEN div_u32(self, rhs[1])
    ELSE IF length(self) < length(rhs) THEN Some(<<<<>>, self>>)
    ELSE long_division(self, rhs)

\* ---------------------------------------------------------------- inputs
\* Most-significant zero digits a stored operand carries at most
MaxPad == 1

RECURSIVE zeros(_)
zeros(n) == IF n = 0 THEN <<>> ELSE <<0>> \o zeros(n - 1)

\* The digit vectors that denote v with at most MaxPad stored most-significant
\* zeros: what parse gives for the numeral of v behind leading "0" characters
\* (of(0) itself is <<0>>; the empty vector is parse("")).
Reps(v) == {reverse(skip_zeros(reverse(of(v)))) \o zeros(p) : p \in 0..MaxPad}

\* Operand values: every value up to MaxSmall, the neighbours of the powers of
\* ten, and the multiples of a stride up to a maximum.
MaxSmall == 12

EdgeVals == {99, 100, 101, 999, 1000, 1001}

MaxDividend == 9999
DividendStride == 83
MaxDivisor == 999
DivisorStride == 11

DividendVals ==
    (0..MaxSmall) \cup EdgeVals \cup {v \in 0..MaxDividend : v % DividendStride = 0}

DivisorVals == (0..MaxSmall) \cup {v \in 0..MaxDivisor : v % DivisorStride = 0}

Dividends == UNION {Reps(v) : v \in DividendVals}
Divisors == UNION {Reps(v) : v \in DivisorVals}

RECURSIVE Pow10(_)
Pow10(e) == IF e = 0 THEN 1 ELSE RADIX * Pow10(e - 1)

\* Every stored digit lies in 0..RADIX-1
DigitsOk(ds) == \A i \in 1..Len(ds) : ds[i] \in 0..(RADIX - 1)

\* ---------------------------------------------------------------- state
VARIABLES
    pc,      \* position of the operation in progress
    x,       \* left operand (self)
    y,       \* right operand (rhs)
    result,  \* what the operation returned
    ld,      \* the locals of longdivide
    text,    \* the string handed to parse
    it,      \* a Digits window
    got      \* what each advance of the window returned, in call order

vars == <<pc, x, y, result, ld, text, it, got>>

NoLd == ld_start(<<>>, <<1>>)
NoIt == iter_digits(<<>>, 0)

\* ---------------------------------------------------------------- div_nsi, stepwise
InitDiv ==
    /\ x \in Dividends
    /\ y \in Divisors
    /\ pc = "start"
    /\ result = None
    /\ ld = NoLd
    /\ text = <<>>
    /\ it = NoIt
    /\ got = <<>>

\* div_nsi up to the point where a branch returns or longdivide enters its loop
DivDispatch ==
    /\ pc = "start"
    /\ IF div_branch(x, y) = "long"
       THEN /\ pc' = "loop"
            /\ ld' = ld_start(x, y)
            /\ UNCHANGED result
       ELSE /\ pc' = "done"
            /\ result' = div_nsi(x, y)
            /\ UNCHANGED ld
    /\ UNCHANGED <<x, y, text, it, got>>

\* one iteration of the loop of longdivide
LongDivideStep ==
    /\ pc = "loop"
    /\ ld.k >= 0
    /\ ld' = ld_step(ld)
    /\ UNCHANGED <<pc, x, y, result, text, it, got>>

\* the loop is over: unscale the remainder and return
LongDivideFinish ==
    /\ pc = "loop"
    /\ ld.k < 0
    /\ pc' = "done"
    /\ result' = Some(ld_finish(ld))
    /\ UNCHANGED <<x, y, ld, text, it, got>>

NextDiv == DivDispatch \/ LongDivideStep \/ LongDivideFinish

SpecDiv == InitDiv /\ [][NextDiv]_vars

\* ---------------------------------------------------------------- division claims
\* C1: div_nsi returns no result exactly when the divisor denotes zero; otherwise,
\* in each of the three branches, it returns (q, r) with x == q*y + r and r < y
\* (by the code's own ==, *, + and lt), and q = x div y, r = x mod y numerically.
C1_DivNsi ==
    pc = "done" =>
        /\ result.some <=> Val(y) # 0
        /\ ~result.some <=> is_zero(y)
        /\ result.some =>
              LET q == result.v[1]
                  r == result.v[2]
              IN  /\ Val(q) = Val(x) \div Val(y)
                  /\ Val(r) = Val(x) % Val(y)
                  /\ eq(x, add(mul(q, y), r))
                  /\ lt(r, y)

\* A general long division of a padded dividend by a padded three-digit divisor that
\* took two iterations, corrected the last estimate and left a nonzero remainder.
C1_Witness ==
    /\ pc = "done"
    /\ div_branch(x, y) = "long"
    /\ result.some
    /\ ld.iter = 2
    /\ ld.m = 3
    /\ ld.corrected
    /\ Len(x) > length(x)
    /\ Len(y) > length(y)
    /\ Val(result.v[2]) > 0
    /\ Val(result.v[1]) = Val(x) \div Val(y)

\* C8: in the general case (m >= 2, n >= m), after every iteration of the loop, at
\* position k: the estimate was at most 9, it was decremented at most once and only
\* from a value >= 1, dq = d * qt is not greater than the (m+1)-digit window of r at
\* offset k, the window subtraction ended with borrow 0 and left r < d * 10^k, and
\* qt is the digit at position k of x div y.
C8_OneCorrection ==
    (pc = "loop" /\ ld.iter > 0) =>
        LET k == ld.k + 1
        IN  /\ ld.m >= 2 /\ ld.n >= ld.m
            /\ k = ld.n - ld.m - (ld.iter - 1)
            /\ ld.qt0 <= RADIX - 1
            /\ ld.corrected => ld.qt0 >= 1
            /\ ld.qt = IF ld.corrected THEN ld.qt0 - 1 ELSE ld.qt0
            /\ Val(ld.dq) = Val(ld.d) * ld.qt
            /\ Val(ld.dq) <= Val(ld.win)
            /\ ld.borrow = 0
            /\ Val(ld.r) < Val(ld.d) * Pow10(k)
            /\ ld.qt = ((Val(x) \div Val(y)) \div Pow10(k)) % RADIX

\* A second iteration, with a three-digit divisor, in which the estimate was one too
\* high and was corrected.
C8_Witness ==
    /\ pc = "loop"
    /\ ld.iter = 2
    /\ ld.m = 3
    /\ ld.corrected
    /\ ld.qt = ld.qt0 - 1
    /\ ld.borrow = 0
    /\ ld.qt > 0

\* ---------------------------------------------------------------- one operation on a pair
MaxOperand == 1100
OperandStride == 97

OperandVals ==
    (0..MaxSmall) \cup EdgeVals \cup {v \in 0..MaxOperand : v % OperandStride = 0}

Operands == UNION {Reps(v) : v \in OperandVals}

InitArith ==
    /\ x \in Operands
    /\ y \in Operands
    /\ pc = "start"
    /\ result = None
    /\ ld = NoLd
    /\ text = <<>>
    /\ it = NoIt
    /\ got = <<>>

\* The operation `name` runs on (x, y) and returns `value`
Returns(name, value) ==
    /\ pc = "start"
    /\ pc' = name
    /\ result' = value
    /\ UNCHANGED <<x, y, ld, text, it, got>>

\* The scalar operations take the u32 that y denotes
DoLength == Returns("length", length(x))
DoEq == Returns("eq", eq(x, y))
DoCmp == Returns("cmp", cmp(x, y))
DoAdd == Returns("add", add(x, y))
DoSafeSub == Returns("safe_sub", safe_sub(x, y))
DoSub == Returns("sub", sub(x, y))
DoMulU32 == Returns("mul_u32", mul_u32(x, Val(y)))
DoMul == Returns("mul", mul(x, y))
DoDivU32 == Returns("div_u32", div_u32(x, Val(y)))
DoDivNsi == Returns("div_nsi", div_nsi(x, y))

NextArith ==
    \/ DoLength \/ DoEq \/ DoCmp \/ DoAdd \/ DoSafeSub \/ DoSub
    \/ DoMulU32 \/ DoMul \/ DoDivU32 \/ DoDivNsi

SpecArith == InitArith /\ [][NextArith]_vars

\* C3: safe_sub(a, b) returns a value equal to a - b whenever a >= b (zero when
\* a = b) and no result whenever a < b, never a wrapped or truncated value; the
\* operator `a - b` aborts exactly where safe_sub returns no result.
C3_CheckedSub ==
    /\ pc = "safe_sub" =>
          /\ result.some <=> Val(x) >= Val(y)
          /\ result.some =>
                /\ Val(result.v) = Val(x) - Val(y)
                /\ eq(result.v, of(Val(x) - Val(y)))
                /\ Val(x) = Val(y) => is_zero(result.v)
    /\ pc = "sub" =>
          /\ result.panic <=> Val(x) < Val(y)
          /\ ~result.panic => Val(result.v) = Val(x) - Val(y)

\* A subtraction that borrows across two positions, on a padded minuend.
C3_Witness ==
    /\ pc = "safe_sub"
    /\ result.some
    /\ Val(x) = 1001
    /\ Val(y) = 2
    /\ Len(x) > length(x)
    /\ Val(result.v) = 999

NumCmp(m, n) == IF m < n THEN "Less" ELSE IF m = n THEN "Equal" ELSE "Greater"

Flip(o) == IF o = "Less" THEN "Greater" ELSE IF o = "Greater" THEN "Less" ELSE o

Thirds == UNION {Reps(v) : v \in EdgeVals \cup (0..2)}

\* C4: cmp(a, b) is the numeric comparison of the values; exactly one of lt(a, b),
\* a == b, lt(b, a) holds; cmp is antisymmetric and transitive.
C4_Ordering ==
    pc = "cmp" =>
        /\ result = NumCmp(Val(x), Val(y))
        /\ Cardinality({i \in 1..3 : <<lt(x, y), eq(x, y), lt(y, x)>>[i]}) = 1
        /\ cmp(y, x) = Flip(result)
        /\ \A z \in Thirds :
              /\ (lt(x, y) /\ lt(y, z)) => lt(x, z)
              /\ (cmp(x, y) = "Equal" /\ cmp(y, z) = "Equal") => cmp(x, z) = "Equal"

\* Operands of the same significant length, stored with different lengths, that
\* differ only in their least-significant digit.
C4_Witness ==
    /\ pc = "cmp"
    /\ result = "Greater"
    /\ Val(x) = 1001
    /\ Val(y) = 1000
    /\ Len(x) < Len(y)

\* The sum over the digit positions i of b of (a * digit_i) * 10^i
RECURSIVE PartialProducts(_, _, _)
PartialProducts(a, bs, i) ==
    IF bs = <<>> THEN 0
    ELSE Val(times_radix(mul_u32(a, Head(bs)), i)) + PartialProducts(a, Tail(bs), i + 1)

\* C5: a * b denotes the product of the values, which is the sum over the digit
\* positions i of b of (a x digit_i) shifted left by i positions; multiplying by
\* zero (empty or all-zero digits) yields zero.
C5_Mul ==
    pc = "mul" =>
        /\ Val(result) = Val(x) * Val(y)
        /\ Val(result) = PartialProducts(x, y, 0)
        /\ eq(result, of(Val(x) * Val(y)))
        /\ (is_zero(x) \/ is_zero(y)) => is_zero(result)

\* 999 * 999 = 998001
C5_Witness ==
    /\ pc = "mul"
    /\ Val(x) = 999
    /\ Val(y) = 999
    /\ Val(result) = 998001

\* Two results of the same operation are the same outcome: the same status, and
\* values that are equal under ==
SameOutcome(name, r1, r2) ==
    IF name \in {"length", "eq", "cmp"} THEN r1 = r2
    ELSE IF name \in {"add", "mul_u32", "mul"} THEN eq(r1, r2)
    ELSE IF name = "safe_sub" THEN r1.some = r2.some /\ (r1.some => eq(r1.v, r2.v))
    ELSE r1.some = r2.some
         /\ (r1.some => eq(r1.v[1], r2.v[1]) /\ eq(r1.v[2], r2.v[2]))

Apply(name, a, b) ==
    CASE name = "length" -> length(a)
      [] name = "eq" -> eq(a, b)
      [] name = "cmp" -> cmp(a, b)
      [] name = "add" -> add(a, b)
      [] name = "safe_sub" -> safe_sub(a, b)
      [] name = "mul_u32" -> mul_u32(a, Val(b))
      [] name = "mul" -> mul(a, b)
      [] name = "div_u32" -> div_u32(a, Val(b))
      [] name = "div_nsi" -> div_nsi(a, b)

\* C10: operands that denote the same values but differ in their stored
\* most-significant zeros (empty against all-zero included) give the same outcome
\* under length, ==, cmp, add, safe_sub, scalar multiply, multiply, div_u32 and
\* div_nsi.
C10_ReprIndependence ==
    pc \in {"length", "eq", "cmp", "add", "safe_sub", "mul_u32", "mul", "div_u32",
            "div_nsi"} =>
        \A a \in Reps(Val(x)), b \in Reps(Val(y)) :
            SameOutcome(pc, result, Apply(pc, a, b))

\* A long division whose operands are both stored with a most-significant zero.
C10_Witness ==
    /\ pc = "div_nsi"
    /\ div_branch(x, y) = "long"
    /\ Len(x) > length(x)
    /\ Len(y) > length(y)
    /\ result.some
    /\ Val(result.v[1]) > 0
    /\ \E a \in Reps(Val(x)) : a # x /\ eq(div_nsi(a, y).v[1], result.v[1])

\* ---------------------------------------------------------------- parse, then Display
MaxTextLen == 4

Chars == {"0", "1", "7", "9", "a", " ", "-"}

Texts == UNION {[1..n -> Chars] : n \in 0..MaxTextLen}

InitText ==
    /\ text \in Texts
    /\ pc = "start"
    /\ x = <<>>
    /\ y = <<>>
    /\ result = None
    /\ ld = NoLd
    /\ it = NoIt
    /\ got = <<>>

\* NonSmallInt::parse(text); x is bound to the value when there is one
Parse ==
    /\ pc = "start"
    /\ pc' = "parsed"
    /\ result' = parse(text)
    /\ x' = IF parse(text).some THEN parse(text).v ELSE x
    /\ UNCHANGED <<y, ld, text, it, got>>

\* format!("{}", x) of the parsed value
Display ==
    /\ pc = "parsed"
    /\ result.some
    /\ pc' = "shown"
    /\ result' = fmt(x)
    /\ UNCHANGED <<x, y, ld, text, it, got>>

NextText == Parse \/ Display

SpecText == InitText /\ [][NextText]_vars

\* The text between its first and its last non-whitespace character
Trimmed(t) ==
    LET keep == {i \in 1..Len(t) : t[i] # " "}
    IN  IF keep = {} THEN <<>>
        ELSE SubSeq(t, CHOOSE i \in keep : \A j \in keep : i <= j,
                       CHOOSE i \in keep : \A j \in keep : i >= j)

\* C6: parse returns no result exactly when the trimmed input holds a character
\* that is not a decimal digit, wherever it stands; otherwise the stored digits
\* are the trimmed input reversed, so leading zeros in the text do not change the
\* value: it equals construct(value), with the numeral's significant length.
C6_Parse ==
    pc = "parsed" =>
        LET t == Trimmed(text)
            n == Len(t)
        IN  /\ result.some <=> \A i \in 1..n : t[i] \in {DigitChars[j] : j \in 1..RADIX}
            /\ result.some =>
                  /\ Len(result.v) = n
                  /\ \A i \in 1..n : DigitChars[result.v[i] + 1] = t[n + 1 - i]
                  /\ eq(result.v, of(Val(result.v)))
                  /\ length(result.v) =
                        IF Val(result.v) = 0 THEN 0 ELSE Len(format_uint(Val(result.v)))

\* " 017": whitespace trimmed, a leading zero kept in store, value 17
C6_Witness ==
    /\ pc = "parsed"
    /\ text = <<" ", "0", "1", "7">>
    /\ result.some
    /\ result.v = <<7, 1, 0>>
    /\ length(result.v) = 2

\* C2: Display renders zero as "0" and any nonzero value, whatever its stored
\* digits, as the canonical decimal numeral of the value: the significant digits,
\* most-significant first, with no leading zero.
C2_Display ==
    pc = "shown" => result = format_uint(Val(x))

\* ---------------------------------------------------------------- the Digits window
MaxWindow == 4
MaxAdvances == 6

WindowVals == {0, 7, 21, 321}

InitWindow ==
    /\ x \in UNION {Reps(v) : v \in WindowVals}
    /\ \E len \in 0..MaxWindow : it = iter_digits(x, len)
    /\ got = <<>>
    /\ pc = "window"
    /\ y = <<>>
    /\ result = None
    /\ ld = NoLd
    /\ text = <<>>

\* iter.next()
AdvanceFront ==
    /\ pc = "window"
    /\ Len(got) < MaxAdvances
    /\ it' = next(it).it
    /\ got' = Append(got, [end |-> "front", pos |-> it.next_ix, item |-> next(it).item])
    /\ UNCHANGED <<pc, x, y, result, ld, text>>

\* iter.next_back()
AdvanceBack ==
    /\ pc = "window"
    /\ Len(got) < MaxAdvances
    /\ it' = next_back(it).it
    /\ got' = Append(got, [end |-> "back", pos |-> it.next_back_ix,
                           item |-> next_back(it).item])
    /\ UNCHANGED <<pc, x, y, result, ld, text>>

NextWindow == AdvanceFront \/ AdvanceBack

SpecWindow == InitWindow /\ [][NextWindow]_vars

\* The length the window was opened with
WindowLen == IF it.empty THEN 0 ELSE it.next_back_ix + 1 + Cardinality(
                 {i \in 1..Len(got) : got[i].end = "back" /\ got[i].item.some})

\* The advances that yielded a digit
Yields == {i \in 1..Len(got) : got[i].item.some}

\* C7: whatever the window length L and the interleaving of front and back
\* advances, the advances yield each position 0..L-1 at most once (so at most L
\* digits in all), front ascending from 0 and back descending from L-1, with the
\* stored digit or zero past the stored digits; an advance yields none only when
\* all L positions have been yielded, and then every later advance yields none.
C7_WindowExhaustion ==
    pc = "window" =>
        /\ Cardinality(Yields) <= WindowLen
        /\ \A i \in Yields :
              /\ got[i].pos \in 0..(WindowLen - 1)
              /\ got[i].item.v = lookup(x, got[i].pos)
              /\ \A j \in Yields : (i # j) => got[i].pos # got[j].pos
        /\ \A i \in 1..Len(got) :
              ~got[i].item.some =>
                  /\ Cardinality({j \in Yields : j < i}) = WindowLen
                  /\ \A j \in i..Len(got) : ~got[j].item.some

\* ---------------------------------------------------------------- chains of operations
\* A value kept in x has at most MaxLen stored digits and denotes at most MaxChainVal
MaxLen == 4
MaxChainVal == 700
MaxScalar == 11
MaxExp == 2
MaxShift == 2

ChainVals == {0, 7, 12, 109}

ChainTexts == {<<>>, <<"0", "0">>, <<" ", "9", "7">>, <<"1", "a">>, <<"1", "0", "9", "0">>}

\* The right operand of a binary operation: a constructed value, stored with or
\* without most-significant zeros, or the value in x itself
ChainConstructed == UNION {Reps(v) : v \in ChainVals}

ChainOperands == ChainConstructed \cup {x}

InitChain ==
    /\ x = of(0)
    /\ y = <<>>
    /\ pc = "idle"
    /\ result = None
    /\ ld = NoLd
    /\ text = <<>>
    /\ it = NoIt
    /\ got = <<>>

\* x is replaced by the value an operation returned
Becomes(v) ==
    /\ pc = "idle"
    /\ Len(v) <= MaxLen
    /\ Val(v) <= MaxChainVal
    /\ x' = v
    /\ UNCHANGED <<pc, y, result, ld, text, it, got>>

ChainOf == \E n \in ChainVals : Becomes(of(n))

ChainParse ==
    /\ pc = "idle"
    /\ \E t \in ChainTexts : parse(t).some /\ Becomes(parse(t).v)

ChainAdd == \E o \in ChainOperands : Becomes(add(x, o))

ChainSafeSub ==
    /\ pc = "idle"
    /\ \E o \in ChainOperands : safe_sub(x, o).some /\ Becomes(safe_sub(x, o).v)

ChainMulU32 == \E n \in 0..MaxScalar : Becomes(mul_u32(x, n))

ChainMul == \E o \in ChainOperands : Becomes(mul(x, o))

ChainTimesRadix == \E n \in 0..MaxShift : Becomes(times_radix(x, n))

\* impl Div<u32> and impl Rem<u32> (a zero scalar is the panic)
ChainDivU32 ==
    /\ pc = "idle"
    /\ \E n \in 1..MaxScalar, i \in 1..2 : Becomes(div_u32(x, n).v[i])

ChainPow == \E n \in 0..MaxExp : Becomes(pow(x, n))

ChainSum ==
    /\ pc = "idle"
    /\ \E o \in ChainOperands : Becomes(sum(<<x, o, x>>)) \/ Becomes(sum(<<o>>))

\* x / o or x % o begins: div_nsi(x, o) is entered
ChainDivide ==
    /\ pc = "idle"
    /\ \E o \in ChainOperands : y' = o
    /\ pc' = "start"
    /\ UNCHANGED <<x, result, ld, text, it, got>>

\* impl Div and impl Rem: the quotient or the remainder of the pair div_nsi
\* returned (no result is the panic: the chain ends there)
ChainTake ==
    /\ pc = "done"
    /\ result.some
    /\ \E i \in 1..2 :
          /\ Len(result.v[i]) <= MaxLen
          /\ x' = result.v[i]
    /\ pc' = "idle"
    /\ y' = <<>>
    /\ result' = None
    /\ ld' = NoLd
    /\ UNCHANGED <<text, it, got>>

NextChain ==
    \/ ChainOf \/ ChainParse \/ ChainAdd \/ ChainSafeSub \/ ChainMulU32 \/ ChainMul
    \/ ChainTimesRadix \/ ChainDivU32 \/ ChainPow \/ ChainSum
    \/ ChainDivide \/ DivDispatch \/ LongDivideStep \/ LongDivideFinish \/ ChainTake

SpecChain == InitChain /\ [][NextChain]_vars

\* C9: every value reachable by a sequence of operations has every stored digit
\* in 0..9; so have the quotient digits scalar division emits and the remainder
\* buffer of long division after each in-place window subtraction.
C9_DigitRange ==
    /\ DigitsOk(x)
    /\ DigitsOk(y)
    /\ DigitsOk(ld.r) /\ DigitsOk(ld.d) /\ DigitsOk(ld.q) /\ DigitsOk(ld.dq)
    /\ (pc = "done" /\ result.some) => DigitsOk(result.v[1]) /\ DigitsOk(result.v[2])
    /\ pc = "idle" =>
          /\ \A n \in 1..MaxScalar : \A i \in 1..2 : DigitsOk(div_u32(x, n).v[i])
          /\ \A n \in 0..MaxScalar : DigitsOk(mul_u32(x, n))

\* A long division inside a chain has just subtracted a nonzero dq in place.
C9_Witness ==
    /\ pc = "loop"
    /\ ld.iter = 2
    /\ ld.qt > 0
    /\ Val(ld.r) > 0
    /\ Len(x) = MaxLen
    /\ DigitsOk(ld.r)

====
